---------------------------- MODULE Spec2Model ----------------------------
(***************************************************************************)
(* A model of e9t.py, the environment switcher: one run of main() reads    *)
(* its arguments, resolves the configuration directory, scans it for       *)
(* .json files, builds the registry `environments` and then lists, shows   *)
(* or loads an environment.  Loading writes a shell init file at a fixed   *)
(* path and spawns an interactive shell on it.                             *)
(*                                                                         *)
(* Python strings are TLA+ strings.  An optional value (None or a value)   *)
(* is a sequence of length 0 or 1.  A dict is a sequence of <<key, value>> *)
(* pairs in insertion order.  Two runs (Runs) of the program share the     *)
(* machine: its platform, its file system and the fixed-path init file.    *)
(***************************************************************************)
EXTENDS Integers, Sequences, FiniteSets

VARIABLES
    platform_sys,   \* platform.system() of the machine
    fs_dir,         \* what lies at the configuration directory path
    fs_listing,     \* os.listdir order of that directory's entries
    files,          \* files written by the launchers: path -> content
    last_op,        \* the last open/flush on a launcher file: who and what
    args,           \* argparse result of each run
    pc,             \* each run's position in main / the launcher
    env_conf_dir,   \* each run's resolved configuration directory path
    idx,            \* each run's position in the directory scan
    environments,   \* each run's registry (ordered dict name -> tuple)
    out,            \* each run's standard output, line by line
    loader_calls,   \* file names each run has passed to load_env_conf
    exc,            \* the exception a run is handling or died of
    crashed_in,     \* the function a run's uncaught exception came from
    buf,            \* a run's unflushed buffer of the file it has open
    fh,             \* a run's file handle: "none", "open", "closed"
    shell           \* the interactive shell each run spawned

vars == <<platform_sys, fs_dir, fs_listing, files, last_op, args, pc,
          env_conf_dir, idx, environments, out, loader_calls, exc,
          crashed_in, buf, fh, shell>>

machine == <<platform_sys, fs_dir, fs_listing>>

Runs == {1, 2}

(***************************************************************************)
(* Bounds of the model.                                                    *)
(***************************************************************************)
MaxFiles == 2

(***************************************************************************)
(* Python values.                                                          *)
(***************************************************************************)
None == << >>
Some(v) == <<v>>

\* bool(x) of an optional string: None and "" are falsy.
Truthy(o) == o # None /\ o[1] # ""

RECURSIVE Join(_, _)
\* sep.join(seq)
Join(seq, sep) ==
    IF seq = << >> THEN ""
    ELSE IF Len(seq) = 1 THEN seq[1]
    ELSE seq[1] \o sep \o Join(Tail(seq), sep)

RECURSIVE SplitLast(_, _, _)
\* s.split(ch)[-1], scanning s left to right with the segment so far in acc
SplitLast(s, ch, acc) ==
    IF s = "" THEN acc
    ELSE IF Head(s) = ch THEN SplitLast(Tail(s), ch, "")
    ELSE SplitLast(Tail(s), ch, acc \o Head(s))

\* dict operations on a sequence of <<key, value>> pairs
DictKeys(d) == [i \in 1..Len(d) |-> d[i][1]]
DictHas(d, k) == \E i \in 1..Len(d) : d[i][1] = k
DictGet(d, k) ==
    IF DictHas(d, k)
    THEN Some(d[CHOOSE i \in 1..Len(d) : d[i][1] = k][2])
    ELSE None
DictSet(d, k, v) ==
    IF DictHas(d, k)
    THEN [i \in 1..Len(d) |-> IF d[i][1] = k THEN <<k, v>> ELSE d[i]]
    ELSE Append(d, <<k, v>>)


(***************************************************************************)
(* message(): the verbose channel.  The lines it adds to standard output.  *)
(***************************************************************************)
message(verbose, text) == IF verbose THEN <<text>> ELSE << >>

(***************************************************************************)
(* platform_data: the two platform profiles.                               *)
(***************************************************************************)
KnownPlatforms == {"Linux", "Windows"}

\* os.getenv of the run's user
HOME == "/home/u"
HOMEDRIVE == "C:"
HOMEPATH == "\\Users\\u"

P_HOME(plat) == IF plat = "Linux" THEN HOME ELSE HOMEDRIVE \o HOMEPATH
P_SEPERATOR(plat) == IF plat = "Linux" THEN "/" ELSE "\\"

\* colorama's Fore.RED and Style.RESET_ALL, written out
Fore_RED == "\\033[31m"
Style_RESET_ALL == "\\033[0m"

(***************************************************************************)
(* An environment is the tuple (variables, path, lib).  variables is a     *)
(* JSON value: [t |-> "dict", items |-> <<key, value>> pairs], or a value  *)
(* of another type, which has no .items().                                 *)
(***************************************************************************)
RECURSIVE VarLines(_, _, _)
\* one line `<prefix>KEY=VALUE<eol>` per variable, in iteration order
VarLines(items, prefix, eol) ==
    IF items = << >> THEN << >>
    ELSE <<prefix \o items[1][1] \o "=" \o items[1][2] \o eol>>
         \o VarLines(Tail(items), prefix, eol)

RECURSIVE Concat(_)
Concat(lines) == IF lines = << >> THEN "" ELSE lines[1] \o Concat(Tail(lines))

\* the lines printed, and the exception that ends the printing
show_nix_platform_info(environment) ==
    IF environment[1].t # "dict"
    THEN [raised |-> "AttributeError", lines |-> << >>]
    ELSE [raised |-> "none",
          lines  |-> VarLines(environment[1].items, "", "")
                     \o <<"PATH=" \o Join(environment[2], ":") \o ":$PATH)">>
                     \o <<"LD_LIBRARY_PATH=" \o Join(environment[2], ":")
                          \o ":$LD_LIBRARY_PATH">>]

show_windows_platform_info(environment) ==
    IF environment[1].t # "dict"
    THEN [raised |-> "AttributeError", lines |-> << >>]
    ELSE [raised |-> "none",
          lines  |-> VarLines(environment[1].items, "", "")
                     \o <<"PATH=" \o Join(environment[2], ";") \o ":%PATH%">>]

P_INFO(plat, environment) ==
    IF plat = "Linux" THEN show_nix_platform_info(environment)
    ELSE show_windows_platform_info(environment)

(***************************************************************************)
(* What the launchers write.  Each gives the text written to the buffer    *)
(* and the exception, if any, that stops the writing.                      *)
(***************************************************************************)
rc_file == "/tmp/i9t.tmp"
bat_file(home) == home \o "\\__apply_environment.bat"

nix_prompt(name) == "PS1='\\e[0;31m(" \o name \o ")> \\e[m'\n"

\* the LD_LIBRARY_PATH line built from the path entries, as the info
\* renderer builds it
nix_lines_lib_from_path(name, environment) ==
    IF environment[1].t # "dict"
    THEN [raised |-> "AttributeError", text |-> nix_prompt(name)]
    ELSE [raised |-> "none",
          text   |-> nix_prompt(name)
                     \o Concat(VarLines(environment[1].items, "", "\n"))
                     \o "PATH=" \o Join(environment[2], ":") \o ":$PATH\n"
                     \o "LD_LIBRARY_PATH=" \o Join(environment[2], ":")
                     \o ":$LD_LIBRARY_PATH\n"]

nix_lines(name, environment) ==
    IF environment[1].t # "dict"
    THEN [raised |-> "AttributeError", text |-> nix_prompt(name)]
    ELSE [raised |-> "none",
          text   |-> nix_prompt(name)
                     \o Concat(VarLines(environment[1].items, "", "\n"))
                     \o "PATH=" \o Join(environment[2], ":") \o ":$PATH\n"
                     \o "LD_LIBRARY_PATH=" \o Join(environment[3], ":")
                     \o ":$LD_LIBRARY_PATH\n"]

windows_header ==
    "@echo off\n"
    \o "if not defined PROMPT set PROMPT=$P$G\n"
    \o "if not defined __ENV_OLD_PROMPT__ set __ENV_OLD_PROMPT__=%PROMPT%\n"

windows_lines(name, environment) ==
    IF environment[1].t # "dict"
    THEN [raised |-> "AttributeError", text |-> windows_header]
    ELSE [raised |-> "none",
          text   |-> windows_header
                     \o Concat(VarLines(environment[1].items, "set ", "\n"))
                     \o "set PATH=" \o Join(environment[2], ";") \o ";%PATH%\n"
                     \o "@cmd /k \"set PROMPT=[" \o name
                     \o "] %__ENV_OLD_PROMPT__%\""]

(***************************************************************************)
(* Files of the configuration directory.  A directory entry is             *)
(* [fname, isdir, body]; body is what open() and json.load make of the     *)
(* file: it cannot be opened, cannot be decoded as UTF-8, is not JSON, is  *)
(* JSON but no object, or is the JSON object obj (a record of its keys).   *)
(***************************************************************************)
Dict(items) == [t |-> "dict", items |-> items]

Qt5Obj ==
    [name |-> "qt5", path |-> <<"/a", "/b">>, lib |-> <<"/c">>,
     variables |-> Dict(<< <<"QTDIR", "/a">> >>)]
GccObj ==
    [name |-> "gcc", path |-> <<"/g/bin">>, lib |-> << >>,
     variables |-> Dict(<< <<"CC", "gcc">>, <<"CXX", "g++">> >>), note |-> "x"]
IllObj ==
    [name |-> "ill", path |-> <<"/i">>, lib |-> <<"/i">>,
     variables |-> [t |-> "list", items |-> << >>]]
Obj(name) ==
    [name |-> name, path |-> <<"/" \o name>>, lib |-> <<"/l">>,
     variables |-> Dict(<< >>)]

File(fname, body) == [fname |-> fname, isdir |-> FALSE, body |-> body]
Json(obj) == [k |-> "object", obj |-> obj]

\* files for the command-line cases
CliFiles ==
    { File("qt5.json", Json(Qt5Obj)),
      File("env.a.json", Json(GccObj)),
      File("t.json", Json(IllObj)),
      File("m.json", [k |-> "malformed"]) }

\* files for the scan's cases
ScanFiles ==
    { File("qt5.json", Json(Qt5Obj)),
      File("env.a.json", Json(GccObj)),
      File("m.json", [k |-> "malformed"]),
      File(".json", Json(Obj(""))),
      File("notes.txt", Json(Obj("txt"))),
      File("env.json.txt", Json(Obj("jt"))),
      File("a.json.bak", Json(Obj("bak"))),
      File("json", Json(Obj("nodot"))),
      File("X.JSON", Json(Obj("upper"))),
      File("k.json", Json([name |-> "k", path |-> << >>,
                           variables |-> Dict(<< >>)])),
      File("n.json", [k |-> "nonobject"]),
      File("u.json", [k |-> "unreadable"]),
      File("b.json", [k |-> "undecodable"]),
      File("dup.json", Json([Qt5Obj EXCEPT !.path = <<"/other">>])),
      [fname |-> "sub.json", isdir |-> TRUE, body |-> [k |-> "dir"]] }

\* the directory listings of at most n distinct entries drawn from fs
Listings(fs, n) ==
    UNION { { s \in [1..m -> fs] : \A i, j \in 1..m : s[i] = s[j] => i = j }
            : m \in 0..n }

(***************************************************************************)
(* load_env_conf                                                           *)
(***************************************************************************)
RequiredKeys == <<"name", "variables", "path", "lib">>

\* the exception the try body raises on this file, or "none"
load_env_conf_try(body) ==
    CASE body.k = "unreadable"  -> "PermissionError"
      [] body.k = "undecodable" -> "UnicodeDecodeError"
      [] body.k = "malformed"   -> "JSONDecodeError"
      [] body.k = "nonobject"   -> "TypeError"
      [] OTHER ->
           IF \A i \in 1..Len(RequiredKeys) : RequiredKeys[i] \in DOMAIN body.obj
           THEN "none" ELSE "KeyError"

\* a handler that forgets KeyError
load_env_conf_catches_json_only(e) == e = "JSONDecodeError"

\* except (json.decoder.JSONDecodeError, KeyError)
load_env_conf_catches(e) == e \in {"JSONDecodeError", "KeyError"}

\* the call's outcome: the exception that leaves it (or "none"), the pair
\* it returns, and the lines message() printed
load_env_conf(env_config_path, body, verbose) ==
    LET e == load_env_conf_try(body) IN
    IF e = "none"
    THEN [raised |-> "none", name |-> Some(body.obj.name),
          data |-> Some(<<body.obj.variables, body.obj.path, body.obj.lib>>),
          printed |-> << >>]
    ELSE IF load_env_conf_catches(e)
    THEN [raised |-> "none", name |-> None, data |-> None,
          printed |-> message(verbose,
              "Exception load env configuration file (" \o env_config_path
              \o "), " \o e)]
    ELSE [raised |-> e, name |-> None, data |-> None, printed |-> << >>]

(***************************************************************************)
(* The initial states: the machine, and the command line of each run that  *)
(* has been started.  A run that is not started is "off".                  *)
(***************************************************************************)
Platforms == {"Linux", "Windows", "Darwin"}

ConfigArgs == {None, Some("c"), Some("d.json")}
NameArgs == {None, Some(""), Some("qt5"), Some("ill"), Some("zz")}

NoArgs == [list |-> FALSE, verbose |-> FALSE, info |-> None,
           config |-> None, load |-> None]

\* every command line over the names above
CliArgs ==
    [list : BOOLEAN, verbose : BOOLEAN, info : NameArgs,
     config : ConfigArgs, load : NameArgs]

\* the command lines of the scan's cases: one per action of main
ScanArgs ==
    { [NoArgs EXCEPT !.verbose = v, !.config = c, !.list = a[1],
                     !.info = a[2], !.load = a[3]] :
        v \in BOOLEAN, c \in ConfigArgs,
        a \in { <<FALSE, None, None>>, <<TRUE, None, None>>,
                <<FALSE, Some("qt5"), None>>, <<FALSE, None, Some("qt5")>> } }

\* an init file left on disk by an earlier run
StaleText == "PS1='(old)> '\nOLD=1\nPATH=/old/bin:/old/sbin:/old/usr/bin:/old/usr/sbin:$PATH\nLD_LIBRARY_PATH=/old/lib:/old/usr/lib:$LD_LIBRARY_PATH\n# left by an earlier run, never cleaned up; padded so that it is longer than any file the runs of this model write ####################################################################################################\n"

NoFiles == [p \in {} |-> ""]
StaleFiles == [p \in {rc_file, bat_file(P_HOME("Windows"))} |-> StaleText]

InitFrom(fs, argset, started, disks) ==
    /\ platform_sys \in Platforms
    /\ fs_dir \in {"missing", "file", "dir"}
    /\ fs_listing \in IF fs_dir = "dir" THEN Listings(fs, MaxFiles) ELSE {<< >>}
    /\ files \in disks
    /\ last_op = [run |-> 0, op |-> "none"]
    /\ args \in { [r \in Runs |-> IF r \in started THEN f[r] ELSE NoArgs] :
                    f \in [started -> argset] }
    /\ pc = [r \in Runs |-> IF r \in started THEN "start" ELSE "off"]
    /\ env_conf_dir = [r \in Runs |-> ""]
    /\ idx = [r \in Runs |-> 0]
    /\ environments = [r \in Runs |-> << >>]
    /\ out = [r \in Runs |-> << >>]
    /\ loader_calls = [r \in Runs |-> << >>]
    /\ exc = [r \in Runs |-> "none"]
    /\ crashed_in = [r \in Runs |-> ""]
    /\ buf = [r \in Runs |-> ""]
    /\ fh = [r \in Runs |-> "none"]
    /\ shell = [r \in Runs |-> [st |-> "none", rc |-> None]]

Init == InitFrom(CliFiles, CliArgs, {1}, {NoFiles, StaleFiles})

InitScan == InitFrom(ScanFiles, ScanArgs, {1}, {NoFiles})

(***************************************************************************)
(* main                                                                    *)
(***************************************************************************)
scan_vars == <<idx, environments, loader_calls>>
launcher_vars == <<files, last_op, buf, fh, shell>>

\* an uncaught exception e leaves function fn: the run dies
Crash(r, e, fn) ==
    /\ pc' = [pc EXCEPT ![r] = "crashed"]
    /\ exc' = [exc EXCEPT ![r] = e]
    /\ crashed_in' = [crashed_in EXCEPT ![r] = fn]

print(r, lines) == out' = [out EXCEPT ![r] = @ \o lines]

Goto(r, label) == pc' = [pc EXCEPT ![r] = label]

\* steps 1 and 2: arguments, platform profile, configuration directory
main_start(r) ==
    /\ pc[r] = "start"
    /\ IF platform_sys \notin KnownPlatforms
       THEN /\ print(r, message(args[r].verbose, "Unknown platform!"))
            /\ Goto(r, "done")
            /\ UNCHANGED env_conf_dir
       ELSE LET dir == IF Truthy(args[r].config) THEN args[r].config[1]
                       ELSE P_HOME(platform_sys) \o P_SEPERATOR(platform_sys)
                            \o ".envconf"
            IN /\ env_conf_dir' = [env_conf_dir EXCEPT ![r] = dir]
               /\ IF fs_dir = "missing"
                  THEN /\ print(r, message(args[r].verbose, dir \o " not exists"))
                       /\ Goto(r, "done")
                  ELSE /\ Goto(r, "listdir")
                       /\ UNCHANGED out
    /\ UNCHANGED <<machine, args, scan_vars, launcher_vars, exc, crashed_in>>

\* os.listdir(env_conf_dir)
main_listdir(r) ==
    /\ pc[r] = "listdir"
    /\ IF fs_dir = "dir"
       THEN /\ Goto(r, "scan")
            /\ idx' = [idx EXCEPT ![r] = 1]
            /\ UNCHANGED <<exc, crashed_in>>
       ELSE /\ Crash(r, "NotADirectoryError", "main")
            /\ UNCHANGED idx
    /\ UNCHANGED <<machine, args, env_conf_dir, environments, loader_calls,
                   out, launcher_vars>>

conf_file(dir, sep, fname) == dir \o sep \o fname

\* a test of the path's ending instead of its last dot-separated segment
is_conf_file_endswith(file, path) ==
    ~file.isdir /\ Len(path) >= 4 /\ SubSeq(path, Len(path) - 3, Len(path)) = "json"

\* not os.path.isdir(conf_file) and conf_file.split('.')[-1] == 'json'
is_conf_file(file, path) ==
    ~file.isdir /\ SplitLast(path, ".", "") = "json"

\* step 3: one iteration of the loop over the directory's entries
main_scan_file(r) ==
    /\ pc[r] = "scan"
    /\ idx[r] <= Len(fs_listing)
    /\ LET file == fs_listing[idx[r]]
           path == conf_file(env_conf_dir[r], P_SEPERATOR(platform_sys),
                             file.fname)
           res  == load_env_conf(path, file.body, args[r].verbose)
       IN IF ~is_conf_file(file, path)
          THEN /\ idx' = [idx EXCEPT ![r] = @ + 1]
               /\ UNCHANGED <<pc, environments, loader_calls, out, exc,
                              crashed_in>>
          ELSE /\ loader_calls' = [loader_calls EXCEPT ![r] = Append(@, file.fname)]
               /\ IF res.raised # "none"
                  THEN /\ Crash(r, res.raised, "load_env_conf")
                       /\ UNCHANGED <<idx, environments, out>>
                  ELSE /\ print(r, res.printed)
                       /\ environments' =
                            [environments EXCEPT ![r] =
                               IF Truthy(res.name) /\ res.data # None
                               THEN DictSet(@, res.name[1], res.data[1])
                               ELSE @]
                       /\ idx' = [idx EXCEPT ![r] = @ + 1]
                       /\ UNCHANGED <<pc, exc, crashed_in>>
    /\ UNCHANGED <<machine, args, env_conf_dir, launcher_vars>>

\* the message alone, without the registry's keys
unknown_load_lines_message_only(name, keys) ==
    <<Fore_RED \o "Unknown environment name: " \o name \o Style_RESET_ALL>>

\* what --load of an unknown name prints: the message, then every key
unknown_load_lines(name, keys) ==
    <<Fore_RED \o "Unknown environment name: " \o name \o Style_RESET_ALL>>
    \o keys

\* the rest of main, after the loop: --list, --info, --load
main_dispatch(r) ==
    /\ pc[r] = "scan"
    /\ idx[r] > Len(fs_listing)
    /\ LET a == args[r]
           keys == DictKeys(environments[r])
       IN IF a.list
          THEN /\ print(r, keys)
               /\ Goto(r, "done")
               /\ UNCHANGED <<exc, crashed_in>>
          ELSE IF Truthy(a.info)
          THEN LET environment == DictGet(environments[r], a.info[1]) IN
               IF environment # None
               THEN LET res == P_INFO(platform_sys, environment[1]) IN
                    /\ print(r, res.lines)
                    /\ IF res.raised = "none"
                       THEN Goto(r, "done") /\ UNCHANGED <<exc, crashed_in>>
                       ELSE Crash(r, res.raised, "show_platform_info")
               ELSE /\ print(r, message(a.verbose,
                               "Uncknow environment name: " \o a.info[1]))
                    /\ Goto(r, "done")
                    /\ UNCHANGED <<exc, crashed_in>>
          ELSE IF Truthy(a.load)
          THEN IF DictGet(environments[r], a.load[1]) # None
               THEN /\ Goto(r, IF platform_sys = "Linux" THEN "nix_open"
                               ELSE "win_open")
                    /\ UNCHANGED <<out, exc, crashed_in>>
               ELSE /\ print(r, unknown_load_lines(a.load[1], keys))
                    /\ Goto(r, "done")
                    /\ UNCHANGED <<exc, crashed_in>>
          ELSE /\ Goto(r, "done")
               /\ UNCHANGED <<out, exc, crashed_in>>
    /\ UNCHANGED <<machine, args, env_conf_dir, scan_vars, launcher_vars>>

(***************************************************************************)
(* The launchers, step by step: open(.., 'w'), the writes (buffered), the  *)
(* end of the with block (flush and close), subprocess.call, the except    *)
(* clause.  The environment decides whether a system call succeeds.        *)
(***************************************************************************)
FileSet(fs, path, text) ==
    [q \in DOMAIN fs \cup {path} |-> IF q = path THEN text ELSE fs[q]]

\* a write of text at offset 0 of a file holding old
WriteAt0(old, text) ==
    IF Len(old) > Len(text)
    THEN text \o SubSeq(old, Len(text) + 1, Len(old))
    ELSE text

\* open(path, 'a'): the file is created, an existing one is left as it is
OpenW_append(fs, path) == IF path \in DOMAIN fs THEN fs ELSE FileSet(fs, path, "")

\* open(path, 'w'): the file is created or truncated
OpenW(fs, path) == FileSet(fs, path, "")

\* the environment main hands to the launcher: [environment]
loaded_environment(r) == DictGet(environments[r], args[r].load[1])[1]

launcher_open(r, path, at, next, handler) ==
    /\ pc[r] = at
    /\ \E res \in {"ok", "PermissionError"} :
         IF res = "ok"
         THEN /\ files' = OpenW(files, path)
              /\ last_op' = [run |-> r, op |-> "open"]
              /\ fh' = [fh EXCEPT ![r] = "open"]
              /\ buf' = [buf EXCEPT ![r] = ""]
              /\ Goto(r, next)
              /\ UNCHANGED exc
         ELSE /\ exc' = [exc EXCEPT ![r] = res]
              /\ Goto(r, handler)
              /\ UNCHANGED <<files, last_op, fh, buf>>
    /\ UNCHANGED <<machine, args, env_conf_dir, scan_vars, out, crashed_in,
                   shell>>

\* the f.write calls: w is the text they buffer and the exception that
\* stops them
launcher_write(r, w, at, next) ==
    /\ pc[r] = at
    /\ buf' = [buf EXCEPT ![r] = w.text]
    /\ exc' = [exc EXCEPT ![r] = w.raised]
    /\ Goto(r, next)
    /\ UNCHANGED <<machine, args, env_conf_dir, scan_vars, out, crashed_in,
                   files, last_op, fh, shell>>

\* leaving the with block, normally or by the pending exception: the
\* buffer is flushed and the file closed
launcher_close(r, path, at, next, handler) ==
    /\ pc[r] = at
    /\ fh' = [fh EXCEPT ![r] = "closed"]
    /\ buf' = [buf EXCEPT ![r] = ""]
    /\ \E res \in {"ok", "OSError"} :
         IF res = "ok"
         THEN /\ files' = FileSet(files, path,
                     WriteAt0(IF path \in DOMAIN files THEN files[path] ELSE "",
                              buf[r]))
              /\ last_op' = [run |-> r, op |-> "flush"]
              /\ Goto(r, IF exc[r] = "none" THEN next ELSE handler)
              /\ UNCHANGED exc
         ELSE /\ exc' = [exc EXCEPT ![r] = res]
              /\ Goto(r, handler)
              /\ UNCHANGED <<files, last_op>>
    /\ UNCHANGED <<machine, args, env_conf_dir, scan_vars, out, crashed_in,
                   shell>>

\* subprocess.call starts the child
launcher_spawn(r, at, next, handler) ==
    /\ pc[r] = at
    /\ \E res \in {"ok", "FileNotFoundError"} :
         IF res = "ok"
         THEN /\ shell' = [shell EXCEPT ![r] = [st |-> "running", rc |-> None]]
              /\ Goto(r, next)
              /\ UNCHANGED exc
         ELSE /\ exc' = [exc EXCEPT ![r] = res]
              /\ Goto(r, handler)
              /\ UNCHANGED shell
    /\ UNCHANGED <<machine, args, env_conf_dir, scan_vars, out, crashed_in,
                   files, last_op, buf, fh>>

\* the child reads its startup file: what it finds there, and the last
\* operation any run did on a launcher file before
child_read(r, path, at) ==
    /\ pc[r] = at
    /\ shell[r].st = "running"
    /\ shell[r].rc = None
    /\ shell' = [shell EXCEPT ![r].rc =
                   Some([text |-> IF path \in DOMAIN files
                                  THEN Some(files[path]) ELSE None,
                         after |-> last_op])]
    /\ UNCHANGED <<machine, args, pc, env_conf_dir, scan_vars, out, exc,
                   crashed_in, files, last_op, buf, fh>>

\* the user leaves the interactive shell
child_exit(r, at) ==
    /\ pc[r] = at
    /\ shell[r].st = "running"
    /\ shell[r].rc # None
    /\ shell' = [shell EXCEPT ![r].st = "exited"]
    /\ UNCHANGED <<machine, args, pc, env_conf_dir, scan_vars, out, exc,
                   crashed_in, files, last_op, buf, fh>>

\* subprocess.call returns when the child has exited; the launcher and
\* main return
launcher_return(r, at) ==
    /\ pc[r] = at
    /\ shell[r].st = "exited"
    /\ Goto(r, "done")
    /\ UNCHANGED <<machine, args, env_conf_dir, scan_vars, out, exc,
                   crashed_in, launcher_vars>>

\* the except clause: exceptions it does not catch leave the launcher
launcher_except(r, at, catches, lines, fn) ==
    /\ pc[r] = at
    /\ IF catches
       THEN /\ print(r, lines)
            /\ Goto(r, "done")
            /\ UNCHANGED <<exc, crashed_in>>
       ELSE /\ Crash(r, exc[r], fn)
            /\ UNCHANGED out
    /\ UNCHANGED <<machine, args, env_conf_dir, scan_vars, launcher_vars>>

(***************************************************************************)
(* platform_apply_nix                                                      *)
(***************************************************************************)
\* the exception classes that occur in the model; all derive from Exception
OSErrors == {"PermissionError", "OSError", "FileNotFoundError",
             "NotADirectoryError"}
Exceptions == OSErrors \cup {"AttributeError", "TypeError", "KeyError",
                             "JSONDecodeError", "UnicodeDecodeError"}

\* except OSError as e
nix_catches_oserror(e) == e \in OSErrors

\* except Exception as e
nix_catches(e) == e \in Exceptions

platform_apply_nix_open(r) ==
    launcher_open(r, rc_file, "nix_open", "nix_write", "nix_except")

platform_apply_nix_write(r) ==
    launcher_write(r, nix_lines(args[r].load[1], loaded_environment(r)),
                   "nix_write", "nix_close")

platform_apply_nix_close(r) ==
    launcher_close(r, rc_file, "nix_close", "nix_spawn", "nix_except")

platform_apply_nix_spawn(r) ==
    launcher_spawn(r, "nix_spawn", "nix_wait", "nix_except")

\* bash --rcfile rc_file reads the init file when it starts
bash_read_rcfile(r) == child_read(r, rc_file, "nix_wait")

bash_exit(r) == child_exit(r, "nix_wait")

platform_apply_nix_return(r) == launcher_return(r, "nix_wait")

platform_apply_nix_except(r) ==
    launcher_except(r, "nix_except", nix_catches(exc[r]),
                    message(args[r].verbose,
                            "Exception: <class '" \o exc[r] \o "'>"),
                    "platform_apply_nix")

(***************************************************************************)
(* platform_apply_windows                                                  *)
(***************************************************************************)
\* except Exception as e
windows_catches(e) == e \in Exceptions

platform_apply_windows_open(r) ==
    launcher_open(r, bat_file(P_HOME(platform_sys)), "win_open", "win_write",
                  "win_except")

platform_apply_windows_write(r) ==
    launcher_write(r, windows_lines(args[r].load[1], loaded_environment(r)),
                   "win_write", "win_close")

platform_apply_windows_close(r) ==
    launcher_close(r, bat_file(P_HOME(platform_sys)), "win_close",
                   "win_spawn", "win_except")

platform_apply_windows_spawn(r) ==
    launcher_spawn(r, "win_spawn", "win_wait", "win_except")

\* the command interpreter reads the batch file it was started on
cmd_read_bat(r) == child_read(r, bat_file(P_HOME(platform_sys)), "win_wait")

cmd_exit(r) == child_exit(r, "win_wait")

platform_apply_windows_return(r) == launcher_return(r, "win_wait")

\* pass
platform_apply_windows_except(r) ==
    launcher_except(r, "win_except", windows_catches(exc[r]), << >>,
                    "platform_apply_windows")

(***************************************************************************)
(* The specifications.                                                     *)
(***************************************************************************)
main(r) ==
    \/ main_start(r)
    \/ main_listdir(r)
    \/ main_scan_file(r)
    \/ main_dispatch(r)

platform_apply_nix(r) ==
    \/ platform_apply_nix_open(r)
    \/ platform_apply_nix_write(r)
    \/ platform_apply_nix_close(r)
    \/ platform_apply_nix_spawn(r)
    \/ bash_read_rcfile(r)
    \/ bash_exit(r)
    \/ platform_apply_nix_return(r)
    \/ platform_apply_nix_except(r)

platform_apply_windows(r) ==
    \/ platform_apply_windows_open(r)
    \/ platform_apply_windows_write(r)
    \/ platform_apply_windows_close(r)
    \/ platform_apply_windows_spawn(r)
    \/ cmd_read_bat(r)
    \/ cmd_exit(r)
    \/ platform_apply_windows_return(r)
    \/ platform_apply_windows_except(r)

Next ==
    \E r \in Runs : main(r) \/ platform_apply_nix(r) \/ platform_apply_windows(r)

\* one run, every command line, the files of the command-line cases
Spec == Init /\ [][Next]_vars

\* one run, every file of the scan's cases
SpecScan == InitScan /\ [][Next]_vars

(***************************************************************************)
(* Two runs on one Linux machine, each loading a different environment of  *)
(* the same configuration directory.                                       *)
(***************************************************************************)
RaceLoads == <<"qt5", "gcc">>

InitRace ==
    /\ InitFrom(CliFiles, {[NoArgs EXCEPT !.load = Some(RaceLoads[r])] : r \in Runs},
                Runs, {NoFiles, StaleFiles})
    /\ platform_sys = "Linux"
    /\ fs_dir = "dir"
    /\ fs_listing = <<File("qt5.json", Json(Qt5Obj)), File("env.a.json", Json(GccObj))>>
    /\ \A r \in Runs : args[r].load = Some(RaceLoads[r])

NextRace == \E r \in Runs : main(r) \/ platform_apply_nix(r)

SpecRace == InitRace /\ [][NextRace]_vars

(***************************************************************************)
(* Properties.                                                             *)
(***************************************************************************)
StartsWith(s, p) == Len(s) >= Len(p) /\ SubSeq(s, 1, Len(p)) = p
EndsWith(s, p) == Len(s) >= Len(p) /\ SubSeq(s, Len(s) - Len(p) + 1, Len(s)) = p
Contains(s, p) == \E i \in 1..(Len(s) - Len(p) + 1) : SubSeq(s, i, i + Len(p) - 1) = p
IsSuffix(tail, seq) ==
    Len(seq) >= Len(tail) /\ SubSeq(seq, Len(seq) - Len(tail) + 1, Len(seq)) = tail
Range(seq) == {seq[i] : i \in 1..Len(seq)}

\* the run is over, by a return or by an uncaught exception
Ended(r) == pc[r] \in {"done", "crashed"}
\* the loop over the directory's entries has run to its end
ScanDone(r) == idx[r] > Len(fs_listing)
\* index i of the listing has been looked at by run r
Looked(r, i) ==
    i < idx[r] \/ (i = idx[r] /\ crashed_in[r] = "load_env_conf")

\* the file name has a dot and the text after its last dot is `json`
FinalSegmentIsJson(fname) ==
    \E k \in 1..Len(fname) :
        SubSeq(fname, k, k) = "." /\ SubSeq(fname, k + 1, Len(fname)) = "json"
\* the entry is a JSON config file of the directory
IsConfigEntry(e) == ~e.isdir /\ FinalSegmentIsJson(e.fname)
\* its content is a JSON object with the four required keys
IsValidConfig(e) ==
    e.body.k = "object"
    /\ {"name", "path", "lib", "variables"} \subseteq DOMAIN e.body.obj
\* its content is malformed JSON, or a JSON object missing a required key
IsInvalidConfig(e) ==
    \/ e.body.k = "malformed"
    \/ e.body.k = "object"
       /\ ~({"name", "path", "lib", "variables"} \subseteq DOMAIN e.body.obj)
ConfigEntries == {e \in Range(fs_listing) : IsConfigEntry(e)}
ValidEntries == {e \in ConfigEntries : IsValidConfig(e)}
\* the directory of the claim: valid configs with pairwise distinct names,
\* and invalid ones
DirOfValidAndInvalid ==
    /\ fs_dir = "dir"
    /\ \A e \in ConfigEntries : IsValidConfig(e) \/ IsInvalidConfig(e)
    /\ \A e, f \in ValidEntries : e.body.obj.name = f.body.obj.name => e = f
\* the registry is exactly these entries' configs
RegistryIs(r, entries) ==
    /\ Len(environments[r]) = Cardinality(entries)
    /\ Range(DictKeys(environments[r])) = {e.body.obj.name : e \in entries}
    /\ \A e \in entries :
         DictGet(environments[r], e.body.obj.name)
           = Some(<<e.body.obj.variables, e.body.obj.path, e.body.obj.lib>>)

\* C1 as stated: the registry built from a directory of N valid, distinctly
\* named configs and M invalid ones holds exactly the N valid configs, the
\* one named by the empty string included.
C1_RegistryHoldsEveryValidName ==
    \A r \in Runs :
        DirOfValidAndInvalid /\ ScanDone(r) => RegistryIs(r, ValidEntries)

\* C1, amended: the scan of such a directory never dies, and the registry
\* it builds holds exactly the valid configs whose name is not the empty
\* string.
C1_RegistryHoldsNonEmptyValidNames ==
    \A r \in Runs :
        DirOfValidAndInvalid =>
            /\ crashed_in[r] # "load_env_conf"
            /\ ScanDone(r) =>
                 RegistryIs(r, {e \in ValidEntries : e.body.obj.name # ""})

\* a scanned directory of one valid config and one that misses a key
C1_Witness ==
    /\ DirOfValidAndInvalid
    /\ ScanDone(1)
    /\ \E e \in ConfigEntries : e.body.k = "object" /\ IsInvalidConfig(e)
    /\ \E e \in ValidEntries : e.body.obj.name = "gcc"
    /\ DictKeys(environments[1]) = <<"gcc">>

\* C3 as stated: no file of the directory ends the scan: the run never
\* dies inside the loader, and once the loop is over every valid config
\* with a non-empty name is in the registry.
C3_BadFilesAreSkipped ==
    \A r \in Runs :
        /\ crashed_in[r] # "load_env_conf"
        /\ Ended(r) /\ fs_dir = "dir" /\ platform_sys \in KnownPlatforms
             => /\ ScanDone(r)
                /\ \A e \in ValidEntries :
                     e.body.obj.name # ""
                       => DictHas(environments[r], e.body.obj.name)

\* C7: of the entries the scan has looked at, those passed to the loader
\* are exactly the non-directories whose file name has a dot and ends, after
\* its last dot, in `json`; nothing else is passed.
C7_LoaderGetsExactlyJsonFiles ==
    \A r \in Runs :
        /\ \A i \in 1..Len(fs_listing) :
             Looked(r, i) =>
                 (fs_listing[i].fname \in Range(loader_calls[r])
                    <=> IsConfigEntry(fs_listing[i]))
        /\ \A n \in Range(loader_calls[r]) :
             \E i \in 1..Len(fs_listing) : Looked(r, i) /\ fs_listing[i].fname = n

\* in a directory whose own name ends in .json, `.json` went to the loader
\* and `json` did not
C7_Witness ==
    /\ env_conf_dir[1] = "d.json"
    /\ ScanDone(1)
    /\ {e.fname : e \in Range(fs_listing)} = {".json", "json"}
    /\ loader_calls[1] = <<".json">>

\* C8 as stated: with no directory at the configuration path, the run ends
\* by a return, with an empty registry, nothing listed or shown, no file
\* written and no shell spawned.
C8_NoDirectoryEndsQuietly ==
    \A r \in Runs :
        fs_dir # "dir" =>
            /\ Ended(r) => pc[r] = "done"
            /\ environments[r] = << >>
            /\ out[r] \in {<< >>, <<env_conf_dir[r] \o " not exists">>,
                           <<"Unknown platform!">>}
            /\ fh[r] = "none"
            /\ shell[r].st = "none"

\* the registry's entry for an optional name, None when there is none
Known(r, name) ==
    IF name = None THEN None ELSE DictGet(environments[r], name[1])
\* the run got as far as acting on its flags
Dispatched(r) == ScanDone(r) /\ pc[r] # "scan"

RECURSIVE KeyValueLines(_)
KeyValueLines(items) ==
    IF items = << >> THEN << >>
    ELSE <<items[1][1] \o "=" \o items[1][2]>> \o KeyValueLines(Tail(items))

\* C2 as stated: on Linux, --info of a known environment prints its
\* KEY=VALUE lines, then PATH=<path joined by ':'>:$PATH), then
\* LD_LIBRARY_PATH=<lib joined by ':'>:$LD_LIBRARY_PATH.
C2_InfoPrintsLibEntries ==
    \A r \in Runs :
        LET e == Known(r, args[r].info) IN
        /\ platform_sys = "Linux" /\ pc[r] = "done" /\ Dispatched(r)
        /\ ~args[r].list /\ e # None
        => IsSuffix(KeyValueLines(e[1][1].items)
                      \o <<"PATH=" \o Join(e[1][2], ":") \o ":$PATH)",
                           "LD_LIBRARY_PATH=" \o Join(e[1][3], ":")
                             \o ":$LD_LIBRARY_PATH">>,
                    out[r])

\* C4 as stated, for the non-empty names: --info of a name the registry
\* does not hold prints a diagnostic naming it, with or without --verbose,
\* ends the run by a return, and neither writes a file nor spawns a shell,
\* --load or not.
C4_UnknownInfoIsReported ==
    \A r \in Runs :
        /\ Dispatched(r) /\ ~args[r].list
        /\ Truthy(args[r].info) /\ Known(r, args[r].info) = None
        => /\ pc[r] = "done"
           /\ \E i \in 1..Len(out[r]) : Contains(out[r][i], "environment name")
           /\ fh[r] = "none"
           /\ shell[r].st = "none"

\* C5 as stated: --load of a name the registry does not hold, without
\* --list and --info, prints the "Unknown environment name" message and
\* then every registry key, and never enters the launcher.
C5_UnknownLoadListsKeys ==
    \A r \in Runs :
        /\ Dispatched(r) /\ ~args[r].list /\ args[r].info = None
        /\ args[r].load # None /\ Known(r, args[r].load) = None
        => /\ pc[r] = "done"
           /\ IsSuffix(<<Fore_RED \o "Unknown environment name: "
                           \o args[r].load[1] \o Style_RESET_ALL>>
                         \o DictKeys(environments[r]),
                       out[r])
           /\ fh[r] = "none"
           /\ shell[r].st = "none"

\* C5, amended: such a --load never enters the launcher; when the name is
\* not the empty string it prints the message and then every registry key,
\* and when it is the empty string it prints nothing.
C5_UnknownNonEmptyLoadListsKeys ==
    \A r \in Runs :
        /\ Dispatched(r) /\ ~args[r].list /\ args[r].info = None
        /\ args[r].load # None /\ Known(r, args[r].load) = None
        => /\ pc[r] = "done"
           /\ fh[r] = "none"
           /\ shell[r].st = "none"
           /\ IF args[r].load[1] # ""
              THEN IsSuffix(<<Fore_RED \o "Unknown environment name: "
                                \o args[r].load[1] \o Style_RESET_ALL>>
                              \o DictKeys(environments[r]),
                            out[r])
              ELSE \A i \in 1..Len(out[r]) :
                     ~Contains(out[r][i], "Unknown environment name")

\* --load zz on a registry of two environments: the message, then both keys
C5_Witness ==
    /\ pc[1] = "done"
    /\ ~args[1].list /\ args[1].info = None /\ args[1].load = Some("zz")
    /\ Len(environments[1]) = 2
    /\ Len(out[1]) >= 3
    /\ Contains(out[1][Len(out[1]) - 2], "Unknown environment name: zz")
    /\ SubSeq(out[1], Len(out[1]) - 1, Len(out[1])) = DictKeys(environments[1])
    /\ fh[1] = "none" /\ shell[1].st = "none"

RECURSIVE LinesOf(_, _)
\* the lines of a text, each ended by a newline; acc is the line so far
LinesOf(text, acc) ==
    IF text = "" THEN (IF acc = "" THEN << >> ELSE <<acc>>)
    ELSE IF Head(text) = "\n" THEN <<acc>> \o LinesOf(Tail(text), "")
    ELSE LinesOf(Tail(text), acc \o Head(text))

\* the init file of the claim: a prompt line with the name, the KEY=VALUE
\* lines, the PATH line, the LD_LIBRARY_PATH line
IsInitFileOf(text, name, environment) ==
    LET lines == LinesOf(text, "")
        n == Len(environment[1].items)
    IN /\ EndsWith(text, "\n")
       /\ Len(lines) = n + 3
       /\ StartsWith(lines[1], "PS1=") /\ Contains(lines[1], "(" \o name \o ")")
       /\ SubSeq(lines, 2, n + 1) = KeyValueLines(environment[1].items)
       /\ lines[n + 2] = "PATH=" \o Join(environment[2], ":") \o ":$PATH"
       /\ lines[n + 3] = "LD_LIBRARY_PATH=" \o Join(environment[3], ":")
                           \o ":$LD_LIBRARY_PATH"

\* C6: on Linux, once the shell of a load is spawned the init file is
\* closed and holds the prompt line with the environment's name, the
\* KEY=VALUE lines, the PATH line and the LD_LIBRARY_PATH line, in this
\* order; the shell reads exactly that; and the run is over only when the
\* shell has exited.
C6_InitFileWrittenBeforeShell ==
    \A r \in Runs :
        platform_sys = "Linux" /\ shell[r].st # "none" =>
            /\ fh[r] = "closed"
            /\ rc_file \in DOMAIN files
            /\ IsInitFileOf(files[rc_file], args[r].load[1], loaded_environment(r))
            /\ shell[r].rc # None => shell[r].rc[1].text = Some(files[rc_file])
            /\ pc[r] = "done" => shell[r].st = "exited"

\* the spec's qt5 example, loaded over a stale init file
C6_Witness ==
    /\ platform_sys = "Linux"
    /\ DOMAIN files = DOMAIN StaleFiles
    /\ pc[1] = "done"
    /\ shell[1].st = "exited"
    /\ args[1].load = Some("qt5")
    /\ files[rc_file] = "PS1='\\e[0;31m(qt5)> \\e[m'\nQTDIR=/a\nPATH=/a:/b:$PATH\nLD_LIBRARY_PATH=/c:$LD_LIBRARY_PATH\n"
    /\ shell[1].rc = Some([text |-> Some(files[rc_file]),
                           after |-> [run |-> 1, op |-> "flush"]])

\* the run is in, or has left, a launcher whose try block raised
LauncherFailed(r) ==
    /\ exc[r] # "none"
    /\ pc[r] \in {"nix_except", "win_except", "done", "crashed"}
    /\ crashed_in[r] \notin {"main", "load_env_conf", "show_platform_info"}
    /\ Dispatched(r)

\* C9: no exception of the launcher's try block leaves the launcher, on
\* either platform; after one, no shell was spawned; on Linux the verbose
\* channel reports it and on Windows nothing is printed.
C9_LauncherFailuresAreCaught ==
    \A r \in Runs :
        /\ crashed_in[r] \notin {"platform_apply_nix", "platform_apply_windows"}
        /\ LauncherFailed(r) =>
             /\ shell[r].st = "none"
             /\ pc[r] = "done" =>
                  LET reports == {i \in 1..Len(out[r]) :
                                    StartsWith(out[r][i], "Exception: ")}
                  IN IF platform_sys = "Linux" /\ args[r].verbose
                     THEN /\ reports # {}
                          /\ out[r][Len(out[r])]
                               = "Exception: <class '" \o exc[r] \o "'>"
                     ELSE reports = {}

\* a load whose writes raised AttributeError, caught, the run over
C9_Witness ==
    /\ pc[1] = "done"
    /\ exc[1] = "AttributeError"
    /\ LauncherFailed(1)
    /\ fh[1] = "closed"
    /\ shell[1].st = "none"

\* what run q's launcher writes
InitFileOfRun(q) == nix_lines(args[q].load[1], loaded_environment(q)).text

\* C10: a run's shell reads whatever the last operation of any run left in
\* the init file: the empty file after an open, a text that begins with
\* the last flusher's after a flush; nothing ties it to the run's own write.
C10_ShellReadsLastWriter ==
    \A r \in Runs :
        shell[r].rc # None =>
            LET seen == shell[r].rc[1] IN
            /\ seen.text # None
            /\ seen.after.op = "open" => seen.text[1] = ""
            /\ seen.after.op = "flush" =>
                 StartsWith(seen.text[1], InitFileOfRun(seen.after.run))

\* the shell of the run that loaded qt5 read the init file of the run that
\* loaded gcc
C10_Witness ==
    /\ shell[1].rc # None
    /\ shell[1].rc[1].after = [run |-> 2, op |-> "flush"]
    /\ shell[1].rc[1].text = Some(InitFileOfRun(2))
    /\ InitFileOfRun(2) # InitFileOfRun(1)
    /\ Contains(shell[1].rc[1].text[1], "(gcc)")

=============================================================================
